---- MODULE Spec2Model ----
(***************************************************************************)
(* Model of the AI ticket dispatcher of Civitas                            *)
(* (backend/src/services/dispatcher_agent.py) and of the collaborators it  *)
(* calls as tools.                                                         *)
(*                                                                         *)
(* Texts are sequences of lexical tokens:                                  *)
(*   "{" "}" "[" "]" ":" ","  JSON punctuation                             *)
(*   "q"      a double quote                                               *)
(*   "ws"     a whitespace character                                       *)
(*   "fence"  three backticks                                              *)
(*   "json"   the word json                                                *)
(*   "num"    a number literal                                             *)
(*   "x"      any other character                                          *)
(*   a field name ("status", "labels", ...) is the run of its letters      *)
(***************************************************************************)
EXTENDS Integers, Sequences, FiniteSets, TLC

\* ------------------------------------------------------------------ bounds
\* the model mock and the data store vary freely during the first
\* MaxVariedTurns model invocations of a conversation
MaxVariedTurns == 1

\* the number of tool_use answers of the mock of a call that runs beside
\* another
MaxBriefTurns == 2

\* -------------------------------------------------------- program constants
max_iterations == 20
NearestK == 5

required_fields == <<"ticket_subject", "ticket_body", "location_coordinates", "origin">>

required_output_fields ==
  <<"status", "priority", "user_assignees", "crew_assignees", "labels",
    "comment", "justification">>

SupportCrewType ==
  {"pothole crew", "drain crew", "tree crew", "sign crew", "snow crew",
   "sanitation crew"}

\* ------------------------------------------------------------ sequence help
Range(s) == {s[i] : i \in DOMAIN s}

\* the only element of a one-element set; {e(v) : v \in {x}} evaluates x
\* once, whatever the number of uses of v in e
The(S) == CHOOSE r \in S : TRUE

RECURSIVE Concat(_)
Concat(seqs) ==
  The({ IF ss = <<>> THEN <<>> ELSE Head(ss) \o Concat(Tail(ss)) : ss \in {seqs} })

\* w occurs in t as a contiguous run
Contains(t, w) == \E i \in 1..(Len(t) - Len(w) + 1) : SubSeq(t, i, i + Len(w) - 1) = w

\* ------------------------------------------------------------- json.loads
\* A parse result is a record
\*   ok    : the text from position i on starts with a JSON value
\*   end   : the position after that value
\*   kind  : "obj" | "arr" | "str" | "num" | "none"
\*   canon : the value's tokens without insignificant whitespace
\*   members : for an object, its <<key, canon>> pairs in text order
\*   items   : for an array, the canon of its elements in order
NoParse == [ok |-> FALSE, end |-> 0, kind |-> "none", canon |-> <<>>,
            members |-> <<>>, items |-> <<>>]

RECURSIVE SkipWs(_, _)
SkipWs(t, at) ==
  The({ IF i <= Len(t) /\ t[i] = "ws" THEN SkipWs(t, i + 1) ELSE i : i \in {at} })

\* position of the first double quote at or after i, Len(t)+1 when none
RECURSIVE NextQuote(_, _)
NextQuote(t, at) ==
  The({ IF i > Len(t) \/ t[i] = "q" THEN i ELSE NextQuote(t, i + 1) : i \in {at} })

\* a string literal: no escapes; a raw whitespace control character inside a
\* string is not produced by the texts of this model
ScanString(t, at) ==
  The({ IF i <= Len(t) /\ t[i] = "q" /\ j <= Len(t)
        THEN [ok |-> TRUE, end |-> j + 1, kind |-> "str", canon |-> SubSeq(t, i, j),
              members |-> <<>>, items |-> <<>>]
        ELSE NoParse
        : i \in {at}, j \in {NextQuote(t, at + 1)} })

\* json.dumps of a list of <<key, value>> pairs as an object, no whitespace
ObjectCanon(members) ==
  <<"{">> \o
  Concat([n \in 1..Len(members) |->
            (IF n > 1 THEN <<",">> ELSE <<>>) \o
            <<"q">> \o members[n][1] \o <<"q", ":">> \o members[n][2]])
  \o <<"}">>

ArrayCanon(items) ==
  <<"[">> \o
  Concat([n \in 1..Len(items) |-> (IF n > 1 THEN <<",">> ELSE <<>>) \o items[n]])
  \o <<"]">>

RECURSIVE ScanValue(_, _), ScanMembers(_, _, _), ScanItems(_, _, _)

\* scanner.py scan_once: dispatch on the first character of the value
ScanValue(t, at) ==
  The({ IF i > Len(t) THEN NoParse
        ELSE CASE t[i] = "q" -> ScanString(t, i)
               [] t[i] = "num" -> [ok |-> TRUE, end |-> i + 1, kind |-> "num",
                                   canon |-> <<"num">>, members |-> <<>>, items |-> <<>>]
               [] t[i] = "{" ->
                    The({ IF j <= Len(t) /\ t[j] = "}"
                          THEN [ok |-> TRUE, end |-> j + 1, kind |-> "obj",
                                canon |-> <<"{", "}">>, members |-> <<>>, items |-> <<>>]
                          ELSE ScanMembers(t, j, <<>>) : j \in {SkipWs(t, i + 1)} })
               [] t[i] = "[" ->
                    The({ IF j <= Len(t) /\ t[j] = "]"
                          THEN [ok |-> TRUE, end |-> j + 1, kind |-> "arr",
                                canon |-> <<"[", "]">>, members |-> <<>>, items |-> <<>>]
                          ELSE ScanItems(t, j, <<>>) : j \in {SkipWs(t, i + 1)} })
               [] OTHER -> NoParse
        : i \in {at} })

\* decoder.py JSONObject: "key" ws : ws value ws ( , ws "key" ... | } )
\* k the key, c the position of the colon, v the value, e what follows it
ScanMembers(t, i, acc) ==
  The({ IF ~k.ok THEN NoParse ELSE
  The({ IF ~(c <= Len(t) /\ t[c] = ":") THEN NoParse ELSE
  The({ IF ~v.ok THEN NoParse ELSE
  The({ IF e > Len(t) THEN NoParse
        ELSE IF t[e] = "}"
             THEN [ok |-> TRUE, end |-> e + 1, kind |-> "obj",
                   canon |-> ObjectCanon(acc2), members |-> acc2, items |-> <<>>]
             ELSE IF t[e] = ","
                  THEN ScanMembers(t, SkipWs(t, e + 1), acc2)
                  ELSE NoParse
        : e \in {SkipWs(t, v.end)},
          acc2 \in {Append(acc, <<SubSeq(k.canon, 2, Len(k.canon) - 1), v.canon>>)} })
        : v \in {ScanValue(t, SkipWs(t, c + 1))} })
        : c \in {SkipWs(t, k.end)} })
        : k \in {ScanString(t, i)} })

\* decoder.py JSONArray: value ws ( , ws value ... | ] )
ScanItems(t, i, acc) ==
  The({ IF ~v.ok THEN NoParse ELSE
  The({ IF e > Len(t) THEN NoParse
        ELSE IF t[e] = "]"
             THEN [ok |-> TRUE, end |-> e + 1, kind |-> "arr",
                   canon |-> ArrayCanon(acc2), members |-> <<>>, items |-> acc2]
             ELSE IF t[e] = ","
                  THEN ScanItems(t, SkipWs(t, e + 1), acc2)
                  ELSE NoParse
        : e \in {SkipWs(t, v.end)}, acc2 \in {Append(acc, v.canon)} })
        : v \in {ScanValue(t, i)} })

\* json.loads: leading whitespace, one value, trailing whitespace, end of
\* text; anything else is a JSONDecodeError (ok = FALSE)
JsonLoads(text) ==
  The({ The({ IF v.ok /\ SkipWs(t, v.end) = Len(t) + 1 THEN v ELSE NoParse
              : v \in {ScanValue(t, SkipWs(t, 1))} })
        : t \in {text} })

\* ------------------------------------------------- regular-expression search
\* re.search(r'```(?:json)?\s*(\{.*?\})\s*```', text, re.DOTALL) tried at
\* start position s: the opening fence, an optional "json", whitespace, "{",
\* then lazily up to the first "}" that whitespace and a fence follow.
\* FenceOpen is the position of the "{" (0 when the prefix does not match).
FenceOpen(t, s) ==
  IF s <= Len(t) /\ t[s] = "fence"
  THEN The({ IF b <= Len(t) /\ t[b] = "{" THEN b ELSE 0
             : b \in {SkipWs(t, IF s + 1 <= Len(t) /\ t[s + 1] = "json"
                                THEN s + 2 ELSE s + 1)} })
  ELSE 0

\* the candidate ends of group 1 when it opens at b
FenceCloses(t, b) ==
  {e \in (b + 1)..Len(t) :
     /\ t[e] = "}"
     /\ \E f \in {SkipWs(t, e + 1)} : f <= Len(t) /\ t[f] = "fence"}

Min(S) == The({CHOOSE m \in T : \A n \in T : m <= n : T \in {S}})

\* group(1) of the leftmost match, lazily the shortest; found = FALSE when
\* the pattern matches nowhere
FencedSearch(text) ==
  The({ The({ IF starts = {} THEN [found |-> FALSE, group |-> <<>>]
              ELSE The({ [found |-> TRUE, group |-> SubSeq(t, b, Min(FenceCloses(t, b)))]
                         : b \in {FenceOpen(t, Min(starts))} })
              : starts \in {{s \in 1..Len(t) :
                               FenceOpen(t, s) # 0 /\ FenceCloses(t, FenceOpen(t, s)) # {}}} })
        : t \in {text} })

\* re.search(r'\{[^{}]*(?:\{[^{}]*\}[^{}]*)*\}', text, re.DOTALL) tried at the
\* "{" at s: the position of the closing "}", 0 when the pattern does not
\* match from there. The braces strictly between the two are a run of
\* "{" "}" pairs (one level of nesting), which fixes the closing position.
BracesBetween(t, s, e) == SelectSeq(SubSeq(t, s + 1, e - 1), LAMBDA c : c \in {"{", "}"})

BraceEnd(t, s) ==
  The({ IF ends = {} THEN 0 ELSE Min(ends)
        : ends \in {{e \in (s + 1)..Len(t) :
                       /\ t[e] = "}"
                       /\ \E inner \in {BracesBetween(t, s, e)} :
                            /\ Len(inner) % 2 = 0
                            /\ \A n \in DOMAIN inner :
                                 inner[n] = IF n % 2 = 1 THEN "{" ELSE "}"}} })

BraceSearch(text) ==
  The({ The({ IF starts = {} THEN [found |-> FALSE, group |-> <<>>]
              ELSE The({ [found |-> TRUE, group |-> SubSeq(t, s, BraceEnd(t, s))]
                         : s \in {Min(starts)} })
              : starts \in {{s \in 1..Len(t) : t[s] = "{" /\ BraceEnd(t, s) # 0}} })
        : t \in {text} })

\* ----------------------------------------------------------- output parser
\* dispatch_ticket_with_ai, "Try to parse as JSON": the value bound to
\* `result`, or ok = FALSE when `result` stays unbound
ParseFinalText(final_text) ==
  The({ IF whole.ok THEN whole
        ELSE The({ IF fenced.found
                   THEN JsonLoads(fenced.group)
                   ELSE The({ IF braces.found THEN JsonLoads(braces.group) ELSE NoParse
                              : braces \in {BraceSearch(final_text)} })
                   : fenced \in {FencedSearch(final_text)} })
        : whole \in {JsonLoads(final_text)} })

\* the Python value json.loads builds.  A dict keeps the last value of a
\* repeated key and compares without regard to the order of its keys.
LastOf(members, key) ==
  members[CHOOSE m \in DOMAIN members :
            /\ members[m][1] = key
            /\ \A l \in DOMAIN members : members[l][1] = key => l <= m][2]

PyValue(parsed) ==
  The({ [kind |-> v.kind,
         dict |-> [key \in {v.members[m][1] : m \in DOMAIN v.members} |->
                     LastOf(v.members, key)],
         items |-> v.items,
         text |-> IF v.kind \in {"str", "num"} THEN v.canon ELSE <<>>]
        : v \in {parsed} })

\* Python's `field in result`: key membership for a dict, element membership
\* for a list, substring test for a str
FieldIn(field, val) ==
  CASE val.kind = "obj" -> <<field>> \in DOMAIN val.dict
    [] val.kind = "arr" -> \E n \in DOMAIN val.items : val.items[n] = <<"q", field, "q">>
    [] val.kind = "str" -> Contains(SubSeq(val.text, 2, Len(val.text) - 1), <<field>>)
    [] OTHER -> FALSE

\* `in` raises TypeError on an int, a bool or None
InRaisesTypeError(val) == val.kind \notin {"obj", "arr", "str"}

\* "Validate the output structure": the first required field that is not in
\* the result, "" when all are
FirstMissing(val) ==
  The({ IF miss = {} THEN "" ELSE required_output_fields[Min(miss)]
        : miss \in {{n \in DOMAIN required_output_fields :
                       ~FieldIn(required_output_fields[n], val)}} })

\* -------------------------------------------------- final texts of the mock
Str(content) == <<"q">> \o content \o <<"q">>

\* the comment bodies the mock writes: plain text, text holding a closing
\* brace and a fence, text holding a lone brace
Bodies == {<<"x">>, <<"x", "}", "fence", "x">>, <<"{", "x">>}

\* the JSON text of one field's value in the wire shape of the decision
FieldText(field, body) ==
  CASE field \in {"status", "priority", "justification"} -> Str(<<"x">>)
    [] field \in {"user_assignees", "crew_assignees"} -> <<"[", "]">>
    [] field = "labels" -> <<"[">> \o Str(<<"x">>) \o <<"]">>
    [] field = "comment" -> <<"{">> \o Str(<<"comment_body">>) \o <<":">> \o Str(body) \o <<"}">>

\* the fields of a decision that leaves out `missing` ("" leaves out none)
FieldsWithout(missing) == SelectSeq(required_output_fields, LAMBDA f : f # missing)

\* a decision object as JSON text; sep is written after every comma and colon
ObjectText(fields, body, sep) ==
  <<"{">> \o
  Concat([n \in 1..Len(fields) |->
            (IF n > 1 THEN <<",">> \o sep ELSE <<>>) \o
            Str(<<fields[n]>>) \o <<":">> \o sep \o FieldText(fields[n], body)])
  \o <<"}">>

\* the dict a decision text denotes, written down from the wire shape and not
\* through the parser
DecisionValue(fields, body) ==
  [kind |-> "obj",
   dict |-> [key \in {<<f>> : f \in Range(fields)} |-> FieldText(key[1], body)],
   items |-> <<>>,
   text |-> <<>>]

Fenced(tag, text) == <<"fence">> \o tag \o <<"ws">> \o text \o <<"ws", "fence">>

Seps == {<<>>, <<"ws">>}
Missings == {""} \cup Range(required_output_fields)

\* every decision object the mock may write, complete or with one field left out
DecisionTexts == {ObjectText(FieldsWithout(m), b, sep) : m \in Missings, b \in Bodies, sep \in Seps}
CompleteTexts == {ObjectText(required_output_fields, b, sep) : b \in Bodies, sep \in Seps}

\* a decision object whose seven values are given, in the order of
\* required_output_fields
ValuedText(vals) ==
  <<"{">> \o
  Concat([n \in 1..Len(required_output_fields) |->
            (IF n > 1 THEN <<",">> ELSE <<>>) \o
            Str(<<required_output_fields[n]>>) \o <<":">> \o vals[n]])
  \o <<"}">>

\* the decision the system prompt asks for, and one with all seven keys
\* whose values have other shapes
WellTypedText ==
  ValuedText(<<Str(<<"awaiting response">>), Str(<<"high">>), <<"[", "]">>, <<"[", "]">>,
               <<"[">> \o Str(<<"x">>) \o <<"]">>, FieldText("comment", <<"x">>),
               Str(<<"x">>)>>)

IllTypedText ==
  ValuedText(<<Str(<<"closed">>), <<"num">>, Str(<<"x">>), <<"[", "]">>, <<"num">>,
               <<"[", "]">>, Str(<<"x">>)>>)

\* final texts that are not one of the decision objects above
OddTexts ==
  { <<>>, <<"x">>, <<"num">>, WellTypedText, IllTypedText,
    \* a JSON list and a JSON string naming the seven fields
    <<"[">> \o Concat([n \in 1..Len(required_output_fields) |->
                 (IF n > 1 THEN <<",">> ELSE <<>>) \o Str(<<required_output_fields[n]>>)])
            \o <<"]">>,
    <<"[">> \o Str(<<"status">>) \o <<"]">>,
    Str(required_output_fields),
    Str(<<"status", "x">>),
    \* a fenced block that is not JSON, followed by a decision in prose
    <<"fence", "ws", "{", "x", "}", "ws", "fence", "ws">> \o
      ObjectText(required_output_fields, <<"x">>, <<>>),
    \* a decision in prose, followed by a fenced block that is not JSON
    ObjectText(required_output_fields, <<"x">>, <<>>) \o
      <<"ws", "fence", "ws", "{", "x", "}", "ws", "fence">>,
    \* a decision with a trailing comma
    <<"{">> \o Str(<<"status">>) \o <<":", "num", ",", "}">> }

\* the final texts of the "final" mock: raw, padded, fenced with and without
\* the json tag, and wrapped in prose
RichTexts ==
  DecisionTexts
  \cup {Fenced(<<"json">>, d) : d \in DecisionTexts}
  \cup {Fenced(<<>>, d) : d \in CompleteTexts}
  \cup {<<"ws">> \o d \o <<"ws">> : d \in CompleteTexts}
  \cup {<<"x", "ws">> \o d \o <<"ws", "x">> : d \in CompleteTexts}
  \cup {<<"x", "ws">> \o Fenced(<<"json">>, d) \o <<"ws", "x">> : d \in CompleteTexts}
  \cup OddTexts

\* the final texts of the "conversation" mock
BasicTexts ==
  { ObjectText(required_output_fields, <<"x">>, <<>>),
    Fenced(<<"json">>, ObjectText(required_output_fields, <<"x">>, <<"ws">>)),
    ObjectText(FieldsWithout("labels"), <<"x">>, <<>>),
    <<"x">> }

\* ------------------------------------------------------------ tool registry
\* a registry that lists a crew type the data model does not have
create_tool_definitions_stale ==
  << [name |-> "get_labels", required |-> <<"search">>, enum |-> {}],
     [name |-> "get_users", required |-> <<"search">>, enum |-> {}],
     [name |-> "get_nearest_crews", required |-> <<"lat", "lng", "crew_type">>,
      enum |-> {"pothole crew", "drain crew", "tree crew", "sign crew", "snow crew",
                "sanitation crew", "road crew"}] >>

\* create_tool_definitions: name, required parameters, crew_type enum
create_tool_definitions ==
  << [name |-> "get_labels", required |-> <<"search">>, enum |-> {}],
     [name |-> "get_users", required |-> <<"search">>, enum |-> {}],
     [name |-> "get_nearest_crews", required |-> <<"lat", "lng", "crew_type">>,
      enum |-> {"pothole crew", "drain crew", "tree crew", "sign crew", "snow crew",
                "sanitation crew"}] >>

\* --------------------------------------------------------------- data store
\* the rows of the tables the tools read; `words` are the search strings a
\* row matches.  The dispatcher never writes to them.
LabelRows ==
  << [label_id |-> "L1", words |-> {"a"}],
     [label_id |-> "L2", words |-> {"b"}] >>

UserRows ==
  << [user_id |-> "U1", status |-> "active", words |-> {"a"}],
     [user_id |-> "U2", status |-> "inactive", words |-> {"a", "b"}],
     [user_id |-> "U3", status |-> "active", words |-> {"b"}] >>

\* distance is the ST_Distance of the crew to the ticket's point
CrewRows ==
  << [team_id |-> "C1", crew_type |-> "pothole crew", located |-> TRUE, distance |-> 3],
     [team_id |-> "C2", crew_type |-> "drain crew", located |-> TRUE, distance |-> 1],
     [team_id |-> "C3", crew_type |-> "pothole crew", located |-> TRUE, distance |-> 0],
     [team_id |-> "C4", crew_type |-> "pothole crew", located |-> FALSE, distance |-> 0],
     [team_id |-> "C5", crew_type |-> "pothole crew", located |-> TRUE, distance |-> 2] >>

\* `if search:` filter of get_labels and get_users; "None" is no search
Matching(rows, search) ==
  SelectSeq(rows, LAMBDA r : search \in {"None", ""} \/ search \in r.words)

\* routers/labels.py get_labels
router_get_labels(search) == Matching(LabelRows, search)

\* routers/users.py get_users
router_get_users(search) == Matching(UserRows, search)

\* ORDER BY distance: the rows of `rows` in ascending distance
RECURSIVE OrderByDistance(_)
OrderByDistance(table) ==
  The({ IF rows = <<>> THEN <<>>
        ELSE The({ <<rows[n]>> \o
                   OrderByDistance(SubSeq(rows, 1, n - 1) \o SubSeq(rows, n + 1, Len(rows)))
                   : n \in {CHOOSE m \in DOMAIN rows :
                              \A l \in DOMAIN rows :
                                rows[m].distance < rows[l].distance
                                \/ (rows[m].distance = rows[l].distance /\ m <= l)} })
        : rows \in {table} })

FirstK(table, k) ==
  The({ SubSeq(rows, 1, IF Len(rows) < k THEN Len(rows) ELSE k) : rows \in {table} })

\* routers/crews.py get_nearest_crews: located crews of the type, nearest
\* first, at most k; a distance of 0 is serialized as None
router_get_nearest_crews(crew_type) ==
  The({ [n \in DOMAIN found |->
           [team_id |-> found[n].team_id, crew_type |-> found[n].crew_type,
            distance |-> IF found[n].distance # 0 THEN found[n].distance ELSE -1]]
        : found \in {FirstK(OrderByDistance(
                       SelectSeq(CrewRows, LAMBDA r : r.located /\ r.crew_type = crew_type)),
                       NearestK)} })

\* ------------------------------------------------------------ tool executor
\* what _execute_tool_internal does with a healthy session:
\*   kind "rows" a list of normalized records, "error" an error dict
\*   queries: whether it queried the data store
\* the crew records converted with a filter on the distance, as the user
\* records are filtered on their status
NearestCrewsRecordsWithDistance(crews) ==
  [n \in DOMAIN SelectSeq(crews, LAMBDA c : c.distance # -1) |->
     [id |-> SelectSeq(crews, LAMBDA c : c.distance # -1)[n].team_id,
      distance |-> SelectSeq(crews, LAMBDA c : c.distance # -1)[n].distance]]

\* get_nearest_crews, "Convert to dict format": one record per crew of the
\* router's list, in its order
NearestCrewsRecords(crews) ==
  [n \in DOMAIN crews |-> [id |-> crews[n].team_id, distance |-> crews[n].distance]]

\* the crew-search arm passing crew_type on to the router as it came
ToolOutcomeUnvalidated(tool_name, tool_input) ==
  CASE tool_name = "get_labels" ->
         The({ [kind |-> "rows", queries |-> TRUE, error |-> "",
                rows |-> [n \in DOMAIN labels |-> [id |-> labels[n].label_id, distance |-> -1]]]
               : labels \in {router_get_labels(tool_input.search)} })
    [] tool_name = "get_users" ->
         The({ [kind |-> "rows", queries |-> TRUE, error |-> "",
                rows |-> [n \in DOMAIN active |-> [id |-> active[n].user_id, distance |-> -1]]]
               : active \in {SelectSeq(router_get_users(tool_input.search),
                                       LAMBDA u : u.status = "active")} })
    [] tool_name = "get_nearest_crews" ->
         The({ [kind |-> "rows", queries |-> TRUE, error |-> "",
                rows |-> NearestCrewsRecords(crews)]
               : crews \in {router_get_nearest_crews(tool_input.crew_type)} })
    [] OTHER ->
         [kind |-> "error", queries |-> FALSE, error |-> "Unknown tool", rows |-> <<>>]

\* the value _execute_tool_internal computes, and whether it queries the
\* data store for it
ToolOutcome(tool_name, tool_input) ==
  CASE tool_name = "get_labels" ->
         The({ [kind |-> "rows", queries |-> TRUE, error |-> "",
                rows |-> [n \in DOMAIN labels |-> [id |-> labels[n].label_id, distance |-> -1]]]
               : labels \in {router_get_labels(tool_input.search)} })
    [] tool_name = "get_users" ->
         The({ [kind |-> "rows", queries |-> TRUE, error |-> "",
                rows |-> [n \in DOMAIN active |-> [id |-> active[n].user_id, distance |-> -1]]]
               : active \in {SelectSeq(router_get_users(tool_input.search),
                                       LAMBDA u : u.status = "active")} })
    [] tool_name = "get_nearest_crews" ->
         IF tool_input.crew_type \notin SupportCrewType
         THEN [kind |-> "error", queries |-> FALSE, error |-> "Invalid crew_type", rows |-> <<>>]
         ELSE The({ [kind |-> "rows", queries |-> TRUE, error |-> "",
                     rows |-> NearestCrewsRecords(crews)]
                    : crews \in {router_get_nearest_crews(tool_input.crew_type)} })
    [] OTHER ->
         [kind |-> "error", queries |-> FALSE, error |-> "Unknown tool", rows |-> <<>>]

\* the unknown-tool arm raising instead of returning an error dict
_execute_tool_internal_strict(tool_name, tool_input, session, fault) ==
  The({ IF (out.queries /\ (fault \/ session = "failed")) \/ out.error = "Unknown tool"
        THEN [raised |-> TRUE, value |-> out, queried |-> out.queries,
              session |-> IF out.queries THEN "failed" ELSE session]
        ELSE [raised |-> FALSE, value |-> out, queried |-> out.queries, session |-> session]
        : out \in {ToolOutcome(tool_name, tool_input)} })

\* _execute_tool_internal on the shared session: a query raises when the
\* data store fails (fault) or when the session already holds a failed
\* transaction, and leaves the session in the failed state
\*   raised : the call raised;  value : what it returned otherwise
\*   session: the state it leaves the session in
_execute_tool_internal(tool_name, tool_input, session, fault) ==
  The({ IF out.queries /\ (fault \/ session = "failed")
        THEN [raised |-> TRUE, value |-> out, queried |-> TRUE, session |-> "failed"]
        ELSE [raised |-> FALSE, value |-> out, queried |-> out.queries, session |-> session]
        : out \in {ToolOutcome(tool_name, tool_input)} })

\* execute_tool: on an exception roll the session back and raise again
\* the except branch re-raising without db.rollback()
execute_tool_without_rollback(tool_name, tool_input, session, fault) ==
  _execute_tool_internal(tool_name, tool_input, session, fault)

execute_tool(tool_name, tool_input, session, fault) ==
  The({ IF r.raised THEN [r EXCEPT !.session = "ok"] ELSE r
        : r \in {_execute_tool_internal(tool_name, tool_input, session, fault)} })

\* ----------------------------------------------------------- the model mock
NoInput == [search |-> "None", crew_type |-> "None"]

TextBlock(text) ==
  [type |-> "text", id |-> <<0, 0>>, name |-> "", input |-> NoInput, text |-> text]

ToolUse(name, input) ==
  [type |-> "tool_use", id |-> <<0, 0>>, name |-> name, input |-> input, text |-> <<>>]

\* the tool_use turns the mock may answer while it varies freely
ToolUseContents ==
  { <<ToolUse("get_labels", [NoInput EXCEPT !.search = "a"])>>,
    <<ToolUse("get_nearest_crews", [NoInput EXCEPT !.crew_type = "pothole crew"])>>,
    <<ToolUse("get_nearest_crews", [NoInput EXCEPT !.crew_type = "road crew"])>>,
    <<ToolUse("get_weather", NoInput)>>,
    <<TextBlock(<<"x">>), ToolUse("get_users", NoInput)>>,
    <<ToolUse("get_weather", NoInput), ToolUse("get_labels", [NoInput EXCEPT !.search = "b"])>>,
    <<ToolUse("get_users", [NoInput EXCEPT !.search = "a"]),
      ToolUse("get_nearest_crews", [NoInput EXCEPT !.crew_type = "pothole crew"])>> }

\* the tool_use turn it repeats afterwards
CanonicalContent == <<ToolUse("get_labels", [NoInput EXCEPT !.search = "a"])>>

\* the tool_use turn of the mock of a call that runs beside another
BriefContent == <<ToolUse("get_users", [NoInput EXCEPT !.search = "a"])>>

\* the API gives every tool_use block an id of its own
WithIds(content, turn) ==
  [n \in DOMAIN content |->
     IF content[n].type = "tool_use" THEN [content[n] EXCEPT !.id = <<turn, n>>]
     ELSE content[n]]

\* an end_turn answer: the text in one block, or split around a tool_use
\* block the loop does not look at
FinalContents(text) ==
  {<<TextBlock(text)>>}
  \cup (IF Len(text) >= 2
        THEN {<<TextBlock(SubSeq(text, 1, 1)), ToolUse("get_weather", NoInput),
                TextBlock(SubSeq(text, 2, Len(text)))>>}
        ELSE {})

\* what the mock of kind `mock` may answer to invocation number `turn`
MockResponses(mock, turn) ==
  IF mock = "final"
  THEN {[stop_reason |-> "end_turn", content |-> c] :
          c \in UNION {FinalContents(t) : t \in RichTexts}}
  ELSE IF mock = "conversation"
  THEN {[stop_reason |-> "tool_use", content |-> WithIds(c, turn)] :
          c \in IF turn <= MaxVariedTurns THEN ToolUseContents ELSE {CanonicalContent}}
       \cup {[stop_reason |-> "end_turn", content |-> <<TextBlock(t)>>] : t \in BasicTexts}
       \cup {[stop_reason |-> "max_tokens",
               content |-> WithIds(<<TextBlock(ObjectText(required_output_fields, <<"x">>, <<>>)),
                                     ToolUse("get_labels", [NoInput EXCEPT !.search = "a"])>>,
                                   turn)]}
  ELSE IF mock = "steady"
  THEN {[stop_reason |-> "tool_use", content |-> WithIds(CanonicalContent, turn)],
        [stop_reason |-> "end_turn",
         content |-> <<TextBlock(ObjectText(required_output_fields, <<"x">>, <<>>))>>],
        [stop_reason |-> "max_tokens", content |-> <<TextBlock(<<"x">>)>>]}
  ELSE {[stop_reason |-> "tool_use", content |-> WithIds(BriefContent, turn)] :
          n \in IF turn <= MaxBriefTurns THEN {turn} ELSE {}}
       \cup {[stop_reason |-> "end_turn", content |-> <<TextBlock(WellTypedText)>>]}

NoResponse == [stop_reason |-> "none", content |-> <<>>]

\* ------------------------------------------------------------------- state
VARIABLES
  attached,     \* the stored ticket's user_assignees, crew_assignees and labels
  reply,        \* the latest request to the tickets router and its status code
  self,         \* the dispatch call that is running: 1 | 2
  parked,       \* the locals of the other call while it waits, if there is one
  mock,         \* the model mock's repertoire: "final" | "conversation" |
                \* "steady" | "brief"
  api_key_arg,  \* the api_key argument: "None" | "" | "sk"
  env_key,      \* ANTHROPIC_API_KEY in the environment: "None" (unset) | "" | "sk"
  ticket,       \* the keys of the ticket dict
  auditBroken,  \* the audit logger raises on every write
  pc,           \* position in dispatch_ticket_with_ai
  api_key,      \* the local api_key
  iteration,
  messages,
  response,     \* the latest response of the model
  blockIdx,     \* position of `for block in response.content`
  tool_results,
  final_text,
  result,       \* the local `result`; the return value when pc = "returned"
  failure,      \* the exception raised when pc = "failed"
  session,      \* the shared data-store session: "ok" | "failed"
  modelCalls,   \* number of client.messages.create calls
  sent,         \* the messages passed to the latest of them
  toolExecs,    \* number of execute_tool calls
  dbQueries,    \* number of queries sent to the data store
  auditLog,     \* the records log_conversation_to_file has written
  warnings      \* number of "Failed to log conversation" warnings

vars == <<attached, reply, self, parked, mock, api_key_arg, env_key, ticket, auditBroken, pc, api_key, iteration,
          messages, response, blockIdx, tool_results, final_text, result, failure,
          session, modelCalls, sent, toolExecs, dbQueries, auditLog, warnings>>

inputs == <<mock, api_key_arg, env_key, ticket, auditBroken>>

\* the longest list of ids a request to the tickets router carries
MaxIds == 2

\* the three many-to-many relations of a ticket
Relations == {"user_assignees", "crew_assignees", "labels"}

\* the ids of the stored users, crews and labels
Stored ==
  [relation \in Relations |->
     CASE relation = "user_assignees" -> {"U1", "U2"}
       [] relation = "crew_assignees" -> {"C1", "C2"}
       [] relation = "labels" -> {"L1", "L2"}]

\* the stored ticket, and an id no ticket has
StoredTickets == {"T1"}
TicketIds == StoredTickets \cup {"T9"}

\* the ids a request may name: the stored ones and one that is not stored
RequestIds(relation) == Stored[relation] \cup {"X9"}

\* the lists of ids a request may carry: any order, repeats included
IdLists(relation) == UNION {[1..n -> RequestIds(relation)] : n \in 0..MaxIds}

\* a ticket as create_ticket leaves it: nothing attached
NoneAttached == [relation \in Relations |-> {}]

NoReply ==
  [op |-> "none", relation |-> "", ticket_id |-> "", ids |-> <<>>, status |-> 0,
   committed |-> FALSE]

\* the ticket store as the tickets router sees it
store == <<attached, reply>>

\* which call runs, and the call that waits
frame == <<self, parked>>

\* a single call: no other call waits
NoFrame == [pc |-> "none"]

NoResult == [kind |-> "none", dict |-> <<>>, items |-> <<>>, text |-> <<>>]

FullTicket == Range(required_fields)

\* the conversation mock is run on a well-formed call; the final mock on
\* every combination of key, environment and ticket
Init ==
  /\ attached = NoneAttached
  /\ reply = NoReply
  /\ self = 1
  /\ parked = NoFrame
  /\ mock \in {"final", "conversation"}
  /\ api_key_arg \in {"None", "", "sk"}
  /\ env_key \in {"None", "", "sk"}
  /\ ticket \in SUBSET (FullTicket \cup {"reporter_id"})
  /\ auditBroken \in BOOLEAN
  /\ mock = "conversation" =>
       api_key_arg = "sk" /\ env_key = "None" /\ ticket = FullTicket
  /\ pc = "entry"
  /\ api_key = api_key_arg
  /\ iteration = 0
  /\ messages = <<>>
  /\ response = NoResponse
  /\ blockIdx = 0
  /\ tool_results = <<>>
  /\ final_text = <<>>
  /\ result = NoResult
  /\ failure = ""
  /\ session = "ok"
  /\ modelCalls = 0
  /\ sent = <<>>
  /\ toolExecs = 0
  /\ dbQueries = 0
  /\ auditLog = <<>>
  /\ warnings = 0

\* the exception recorded but control left where it was
RaiseSwallowed(exception) ==
  /\ pc' = pc
  /\ failure' = exception

\* an exception leaves dispatch_ticket_with_ai
Raise(exception) ==
  /\ pc' = "failed"
  /\ failure' = exception

\* the key test written as `api_key is None`
HasApiKeyNotNone(key) == key # "None"

\* "Get API key": the argument, else the environment; empty or absent raises
HasApiKey(key) == key \notin {"None", ""}

GetApiKey ==
  /\ pc = "entry"
  /\ api_key' = IF api_key_arg = "None" THEN env_key ELSE api_key_arg
  /\ IF HasApiKey(api_key')
     THEN pc' = "validate" /\ UNCHANGED failure
     ELSE Raise("ValueError: Anthropic API key is required")
  /\ UNCHANGED <<store, frame, inputs, iteration, messages, response, blockIdx, tool_results,
                 final_text, result, session, modelCalls, sent, toolExecs,
                 dbQueries, auditLog, warnings>>

\* the validation loop stopping after its first field
MissingTicketFieldFirstOnly(t) ==
  IF required_fields[1] \notin t THEN required_fields[1] ELSE ""

\* the first required field the ticket lacks, "" when it has all
MissingTicketField(t) ==
  LET miss == {n \in DOMAIN required_fields : required_fields[n] \notin t}
  IN IF miss = {} THEN "" ELSE required_fields[Min(miss)]

\* the first user turn, formatted from the ticket
TicketMessage(t) ==
  [role |-> "user", form |-> "str",
   content |-> <<[type |-> "ticket", fields |-> FullTicket,
                  reporter |-> IF "reporter_id" \in t THEN "reporter" ELSE "N/A"]>>]

\* "Validate ticket input", then client, prompt and tools, "Initialize
\* conversation" and the loop counters
ValidateTicket ==
  /\ pc = "validate"
  /\ IF MissingTicketField(ticket) # ""
     THEN /\ Raise("ValueError: Missing required ticket field")
          /\ UNCHANGED <<messages, iteration>>
     ELSE /\ messages' = <<TicketMessage(ticket)>>
          /\ iteration' = 0
          /\ pc' = "loop"
          /\ UNCHANGED failure
  /\ UNCHANGED <<store, frame, inputs, api_key, response, blockIdx, tool_results, final_text,
                 result, session, modelCalls, sent, toolExecs, dbQueries,
                 auditLog, warnings>>

\* the loop guard written with <= : one pass too many
LoopGuardInclusive(n) == n <= max_iterations

\* `while iteration < max_iterations`
LoopGuard(n) == n < max_iterations

\* one pass of the loop head: count the iteration and call the model
CallModel ==
  /\ pc = "loop"
  /\ LoopGuard(iteration)
  /\ iteration' = iteration + 1
  /\ modelCalls' = modelCalls + 1
  /\ sent' = messages
  /\ response' \in MockResponses(mock, modelCalls')
  /\ pc' = "respond"
  /\ UNCHANGED <<store, frame, inputs, api_key, messages, blockIdx, tool_results, final_text,
                 result, failure, session, toolExecs, dbQueries, auditLog, warnings>>

\* the loop ends without a return
ExceedIterations ==
  /\ pc = "loop"
  /\ ~LoopGuard(iteration)
  /\ Raise("Exception: Agent exceeded maximum iterations")
  /\ UNCHANGED <<store, frame, inputs, api_key, iteration, messages, response, blockIdx,
                 tool_results, final_text, result, session, modelCalls, sent,
                 toolExecs, dbQueries, auditLog, warnings>>

\* only the first text block is taken as the final text
TextOfFirstBlock(content) ==
  LET texts == SelectSeq(content, LAMBDA b : b.type = "text")
  IN IF texts = <<>> THEN <<>> ELSE texts[1].text

\* "Extract the final text response": the text blocks, concatenated
TextOf(content) ==
  Concat([n \in DOMAIN content |->
            IF content[n].type = "text" THEN content[n].text ELSE <<>>])

\* a final text that is not JSON answered by asking the model again
ParseAndValidateRetry ==
  /\ pc = "respond"
  /\ response.stop_reason = "end_turn"
  /\ \E text \in {TextOf(response.content)} :
     \E parsed \in {ParseFinalText(text)} :
     \E value \in {PyValue(parsed)} :
        /\ final_text' = text
        /\ IF ~parsed.ok
           THEN /\ pc' = "loop"
                /\ UNCHANGED <<result, failure>>
           ELSE /\ result' = value
                /\ IF InRaisesTypeError(value)
                   THEN Raise("TypeError: argument is not iterable")
                   ELSE IF FirstMissing(value) # ""
                        THEN Raise("ValueError: Missing required output field")
                        ELSE pc' = "log" /\ UNCHANGED failure
  /\ UNCHANGED <<store, frame, inputs, api_key, iteration, messages, response, blockIdx,
                 tool_results, session, modelCalls, sent, toolExecs, dbQueries,
                 auditLog, warnings>>

\* stop_reason == "end_turn": parse the final text and validate the result
ParseAndValidate ==
  /\ pc = "respond"
  /\ response.stop_reason = "end_turn"
  /\ \E text \in {TextOf(response.content)} :
     \E parsed \in {ParseFinalText(text)} :
     \E value \in {PyValue(parsed)} :
        /\ final_text' = text
        /\ IF ~parsed.ok
           THEN /\ Raise("Exception: AI agent did not return valid JSON")
                /\ UNCHANGED result
           ELSE /\ result' = value
                /\ IF InRaisesTypeError(value)
                   THEN Raise("TypeError: argument is not iterable")
                   ELSE IF FirstMissing(value) # ""
                        THEN Raise("ValueError: Missing required output field")
                        ELSE pc' = "log" /\ UNCHANGED failure
  /\ UNCHANGED <<store, frame, inputs, api_key, iteration, messages, response, blockIdx,
                 tool_results, session, modelCalls, sent, toolExecs, dbQueries,
                 auditLog, warnings>>

\* the subject as it enters the file name: cut to 50 characters and cleaned;
\* the tickets here carry the same subject
safe_subject(t) == IF "ticket_subject" \in t THEN "subject" ELSE "unknown"

\* the second the clock shows when a record is written: that of the record
\* before it, or a later one
Now ==
  IF auditLog = <<>> THEN {0}
  ELSE {auditLog[Len(auditLog)].files.log_path.timestamp + d : d \in {0, 1}}

\* the two files a record is written to: "<timestamp>_<subject>.json" and
\* "latest.json", both in the one log directory
LogFiles(t, now) ==
  [log_path |-> [timestamp |-> now, name |-> safe_subject(t)],
   latest_path |-> [timestamp |-> -1, name |-> "latest"]]

\* log_conversation_to_file called without the try/except around it
LogConversationUnguarded ==
  /\ pc = "log"
  /\ IF auditBroken
     THEN Raise("OSError: cannot write log") /\ UNCHANGED auditLog
     ELSE /\ \E now \in Now :
               auditLog' = Append(auditLog, [ticket |-> ticket, conversation |-> messages,
                                             result |-> result,
                                             files |-> LogFiles(ticket, now)])
          /\ pc' = "logged"
          /\ UNCHANGED failure
  /\ UNCHANGED <<store, frame, inputs, api_key, iteration, messages, response, blockIdx,
                 tool_results, final_text, result, session, modelCalls,
                 sent, toolExecs, dbQueries, warnings>>

\* log_conversation_to_file inside try/except: a failure to write becomes a
\* printed warning
LogConversation ==
  /\ pc = "log"
  /\ IF auditBroken
     THEN warnings' = warnings + 1 /\ UNCHANGED auditLog
     ELSE /\ \E now \in Now :
               auditLog' = Append(auditLog, [ticket |-> ticket, conversation |-> messages,
                                             result |-> result,
                                             files |-> LogFiles(ticket, now)])
          /\ UNCHANGED warnings
  /\ pc' = "logged"
  /\ UNCHANGED <<store, frame, inputs, api_key, iteration, messages, response, blockIdx,
                 tool_results, final_text, result, failure, session, modelCalls,
                 sent, toolExecs, dbQueries>>

\* the transcript written once more on the way out
ReturnLoggedAgain ==
  /\ pc = "logged"
  /\ pc' = "returned"
  /\ \E now \in Now :
       auditLog' = Append(auditLog, [ticket |-> ticket, conversation |-> messages,
                                     result |-> result, files |-> LogFiles(ticket, now)])
  /\ UNCHANGED <<store, frame, inputs, api_key, iteration, messages, response, blockIdx,
                 tool_results, final_text, result, failure, session, modelCalls,
                 sent, toolExecs, dbQueries, warnings>>

\* `return result`
Return ==
  /\ pc = "logged"
  /\ pc' = "returned"
  /\ UNCHANGED <<store, frame, inputs, api_key, iteration, messages, response, blockIdx,
                 tool_results, final_text, result, failure, session, modelCalls,
                 sent, toolExecs, dbQueries, auditLog, warnings>>

\* stop_reason == "tool_use": "Add assistant's response to messages"
AppendAssistant ==
  /\ pc = "respond"
  /\ response.stop_reason = "tool_use"
  /\ messages' = Append(messages, [role |-> "assistant", form |-> "list",
                                   content |-> response.content])
  /\ tool_results' = <<>>
  /\ blockIdx' = 1
  /\ pc' = "tools"
  /\ UNCHANGED <<store, frame, inputs, api_key, iteration, response, final_text, result, failure,
                 session, modelCalls, sent, toolExecs, dbQueries, auditLog, warnings>>

\* json.dumps of a tool's value, as carried in a tool_result
JsonDumps(value) == [dumped |-> [kind |-> value.kind, error |-> value.error, rows |-> value.rows]]

\* the result carrying an id of its own in place of the request's id
ToolResultOwnId(block, r) ==
  IF r.raised
  THEN [type |-> "tool_result", tool_use_id |-> <<0, 0>>, is_error |-> TRUE,
        content |-> JsonDumps([kind |-> "error", error |-> "exception", rows |-> <<>>])]
  ELSE [type |-> "tool_result", tool_use_id |-> <<0, 0>>, is_error |-> FALSE,
        content |-> JsonDumps(r.value)]

\* the except branch appending an ordinary, empty result: the exception is
\* not reported to the model
ToolResultWithoutError(block, r) ==
  IF r.raised
  THEN [type |-> "tool_result", tool_use_id |-> block.id, is_error |-> FALSE,
        content |-> JsonDumps([kind |-> "rows", error |-> "", rows |-> <<>>])]
  ELSE [type |-> "tool_result", tool_use_id |-> block.id, is_error |-> FALSE,
        content |-> JsonDumps(r.value)]

\* the tool_result appended for a tool_use block after execute_tool
ToolResult(block, r) ==
  IF r.raised
  THEN [type |-> "tool_result", tool_use_id |-> block.id, is_error |-> TRUE,
        content |-> JsonDumps([kind |-> "error", error |-> "exception", rows |-> <<>>])]
  ELSE [type |-> "tool_result", tool_use_id |-> block.id, is_error |-> FALSE,
        content |-> JsonDumps(r.value)]

\* the data store may fail a query while the environment varies freely
Faults == IF modelCalls <= MaxVariedTurns THEN BOOLEAN ELSE {FALSE}

\* the loop over the blocks without its try/except: a tool call that raises
\* ends the call
ExecuteBlockUnguarded ==
  /\ pc = "tools"
  /\ blockIdx <= Len(response.content)
  /\ \E block \in {response.content[blockIdx]} :
     IF block.type = "tool_use"
     THEN \E fault \in Faults :
            \E r \in {execute_tool(block.name, block.input, session, fault)} :
            /\ IF r.raised
               THEN /\ Raise("Exception: tool failed")
                    /\ UNCHANGED <<tool_results, blockIdx>>
               ELSE /\ tool_results' = Append(tool_results, ToolResult(block, r))
                    /\ blockIdx' = blockIdx + 1
                    /\ UNCHANGED <<pc, failure>>
            /\ session' = r.session
            /\ toolExecs' = toolExecs + 1
            /\ dbQueries' = dbQueries + (IF r.queried THEN 1 ELSE 0)
     ELSE /\ blockIdx' = blockIdx + 1
          /\ UNCHANGED <<pc, failure, tool_results, session, toolExecs, dbQueries>>
  /\ UNCHANGED <<store, frame, inputs, api_key, iteration, messages, response, final_text,
                 result, modelCalls, sent, auditLog, warnings>>

\* one pass of `for block in response.content`: a tool_use block is
\* executed and its result collected, any other block is passed over
ExecuteBlock ==
  /\ pc = "tools"
  /\ blockIdx <= Len(response.content)
  /\ \E block \in {response.content[blockIdx]} :
     IF block.type = "tool_use"
     THEN \E fault \in Faults :
            \E r \in {execute_tool(block.name, block.input, session, fault)} :
            /\ tool_results' = Append(tool_results, ToolResult(block, r))
            /\ session' = r.session
            /\ toolExecs' = toolExecs + 1
            /\ dbQueries' = dbQueries + (IF r.queried THEN 1 ELSE 0)
     ELSE UNCHANGED <<tool_results, session, toolExecs, dbQueries>>
  /\ blockIdx' = blockIdx + 1
  /\ UNCHANGED <<store, frame, inputs, pc, api_key, iteration, messages, response, final_text,
                 result, failure, modelCalls, sent, auditLog, warnings>>

\* the results turn built from a fresh list instead of the collected one
ToolTurnEmpty(results) == [role |-> "user", form |-> "list", content |-> <<>>]

\* the user turn that carries the collected tool results
ToolTurn(results) == [role |-> "user", form |-> "list", content |-> results]

\* "Add tool results to messages" and back to the loop head
AppendToolResults ==
  /\ pc = "tools"
  /\ blockIdx > Len(response.content)
  /\ messages' = Append(messages, ToolTurn(tool_results))
  /\ pc' = "loop"
  /\ UNCHANGED <<store, frame, inputs, api_key, iteration, response, blockIdx, tool_results,
                 final_text, result, failure, session, modelCalls, sent, toolExecs,
                 dbQueries, auditLog, warnings>>

\* the loop without its else branch: any other stop reason is passed over
\* and the loop iterates
UnexpectedStopPassedOver ==
  /\ pc = "respond"
  /\ response.stop_reason \notin {"end_turn", "tool_use"}
  /\ pc' = "loop"
  /\ UNCHANGED <<store, frame, inputs, api_key, iteration, messages, response, blockIdx,
                 tool_results, final_text, result, failure, session, modelCalls, sent,
                 toolExecs, dbQueries, auditLog, warnings>>

\* any other stop reason
UnexpectedStop ==
  /\ pc = "respond"
  /\ response.stop_reason \notin {"end_turn", "tool_use"}
  /\ Raise("Exception: Unexpected stop reason")
  /\ UNCHANGED <<store, frame, inputs, api_key, iteration, messages, response, blockIdx,
                 tool_results, final_text, result, session, modelCalls, sent,
                 toolExecs, dbQueries, auditLog, warnings>>

Next ==
  \/ GetApiKey
  \/ ValidateTicket
  \/ CallModel
  \/ ExceedIterations
  \/ ParseAndValidate
  \/ LogConversation
  \/ Return
  \/ AppendAssistant
  \/ ExecuteBlock
  \/ AppendToolResults
  \/ UnexpectedStop

Spec == Init /\ [][Next]_vars

\* ------------------------------------------------------- concurrent calls
\* the arguments and local variables of the running call
Locals ==
  [mock |-> mock, api_key_arg |-> api_key_arg, ticket |-> ticket, pc |-> pc,
   api_key |-> api_key, iteration |-> iteration, messages |-> messages,
   response |-> response, blockIdx |-> blockIdx, tool_results |-> tool_results,
   final_text |-> final_text, result |-> result, failure |-> failure,
   modelCalls |-> modelCalls, sent |-> sent]

\* the conversation kept in one list that all calls share
ConversationShared(call) == messages

\* `messages` is a local of dispatch_ticket_with_ai: the call that resumes
\* finds its own list
ConversationOf(call) == call.messages

\* the scheduler lets the other call run: the running call's locals are set
\* aside and the waiting call's are taken up; the environment, the session,
\* the log and the counters of the process are shared
Switch ==
  /\ parked # NoFrame
  /\ self' = 3 - self
  /\ parked' = Locals
  /\ mock' = parked.mock
  /\ api_key_arg' = parked.api_key_arg
  /\ ticket' = parked.ticket
  /\ pc' = parked.pc
  /\ api_key' = parked.api_key
  /\ iteration' = parked.iteration
  /\ messages' = ConversationOf(parked)
  /\ response' = parked.response
  /\ blockIdx' = parked.blockIdx
  /\ tool_results' = parked.tool_results
  /\ final_text' = parked.final_text
  /\ result' = parked.result
  /\ failure' = parked.failure
  /\ modelCalls' = parked.modelCalls
  /\ sent' = parked.sent
  /\ UNCHANGED <<store, env_key, auditBroken, session, toolExecs, dbQueries, auditLog,
                 warnings>>

\* two calls for two tickets, the second one reported by a known reporter,
\* each with a mock of its own
ConcInit ==
  /\ attached = NoneAttached
  /\ reply = NoReply
  /\ self = 1
  /\ parked = [mock |-> "brief", api_key_arg |-> "sk",
               ticket |-> FullTicket \cup {"reporter_id"}, pc |-> "entry",
               api_key |-> "sk", iteration |-> 0, messages |-> <<>>,
               response |-> NoResponse, blockIdx |-> 0, tool_results |-> <<>>,
               final_text |-> <<>>, result |-> NoResult, failure |-> "",
               modelCalls |-> 0, sent |-> <<>>]
  /\ mock = "steady"
  /\ api_key_arg = "sk"
  /\ env_key = "None"
  /\ ticket = FullTicket
  /\ auditBroken = FALSE
  /\ pc = "entry"
  /\ api_key = api_key_arg
  /\ iteration = 0
  /\ messages = <<>>
  /\ response = NoResponse
  /\ blockIdx = 0
  /\ tool_results = <<>>
  /\ final_text = <<>>
  /\ result = NoResult
  /\ failure = ""
  /\ session = "ok"
  /\ modelCalls = 0
  /\ sent = <<>>
  /\ toolExecs = 0
  /\ dbQueries = 0
  /\ auditLog = <<>>
  /\ warnings = 0

ConcNext ==
  \/ GetApiKey
  \/ ValidateTicket
  \/ CallModel
  \/ ExceedIterations
  \/ ParseAndValidate
  \/ LogConversation
  \/ Return
  \/ AppendAssistant
  \/ ExecuteBlock
  \/ AppendToolResults
  \/ UnexpectedStop
  \/ Switch

ConcSpec == ConcInit /\ [][ConcNext]_vars

\* ------------------------------------------------------- the tickets router
\* the variables of a dispatch call, which the tickets router leaves alone
dispatch ==
  <<frame, inputs, pc, api_key, iteration, messages, response, blockIdx, tool_results,
    final_text, result, failure, session, modelCalls, sent, toolExecs, dbQueries,
    auditLog, warnings>>

\* `.filter(<id column>.in_(ids)).all()`: the stored rows whose id is in the
\* list, each once
QueryIn(relation, ids) == {id \in Stored[relation] : id \in Range(ids)}

\* `len(rows) != len(ids)` is the "not found" test
AllFound(relation, ids) == Cardinality(QueryIn(relation, ids)) = Len(ids)

\* the replacement applied with the rows found, whether all were found or not
ReplaceUnchecked(relation, ticket_id, ids) ==
  /\ reply' = [op |-> "replace", relation |-> relation, ticket_id |-> ticket_id, ids |-> ids,
                status |-> IF ticket_id \notin StoredTickets THEN 404
                           ELSE IF ~AllFound(relation, ids) THEN 400 ELSE 200,
                committed |-> ticket_id \in StoredTickets]
  /\ IF ticket_id \in StoredTickets
     THEN attached' = [attached EXCEPT ![relation] = QueryIn(relation, ids)]
     ELSE UNCHANGED attached

\* assign_users_to_ticket, assign_crews_to_ticket and set_ticket_labels:
\* 404 for no ticket, 400 when not all rows are found, else the relation is
\* set to the rows found and committed
Replace(relation, ticket_id, ids) ==
  /\ reply' = [op |-> "replace", relation |-> relation, ticket_id |-> ticket_id, ids |-> ids,
                status |-> IF ticket_id \notin StoredTickets THEN 404
                           ELSE IF ~AllFound(relation, ids) THEN 400 ELSE 200,
                committed |-> ticket_id \in StoredTickets /\ AllFound(relation, ids)]
  /\ IF reply'.status = 200
     THEN attached' = [attached EXCEPT ![relation] = QueryIn(relation, ids)]
     ELSE UNCHANGED attached

\* the removal that answers 404 for an entity that is not attached
RemoveStrict(relation, ticket_id, id) ==
  /\ reply' = [op |-> "remove", relation |-> relation, ticket_id |-> ticket_id, ids |-> <<id>>,
                status |-> IF ticket_id \notin StoredTickets \/ id \notin Stored[relation]
                              \/ id \notin attached[relation]
                           THEN 404 ELSE 200,
                committed |-> /\ ticket_id \in StoredTickets
                              /\ id \in Stored[relation] \cap attached[relation]]
  /\ IF reply'.status = 200
     THEN attached' = [attached EXCEPT ![relation] = @ \ {id}]
     ELSE UNCHANGED attached

\* unassign_user_from_ticket, unassign_crew_from_ticket and
\* remove_label_from_ticket: 404 for no ticket or no such entity, else the
\* entity is removed if it is attached
Remove(relation, ticket_id, id) ==
  /\ reply' = [op |-> "remove", relation |-> relation, ticket_id |-> ticket_id, ids |-> <<id>>,
                status |-> IF ticket_id \notin StoredTickets \/ id \notin Stored[relation]
                           THEN 404 ELSE 200,
                committed |-> /\ ticket_id \in StoredTickets
                              /\ id \in Stored[relation] \cap attached[relation]]
  /\ IF reply'.status = 200 /\ id \in attached[relation]
     THEN attached' = [attached EXCEPT ![relation] = @ \ {id}]
     ELSE UNCHANGED attached

assign_users_to_ticket ==
  \E ticket_id \in TicketIds, user_ids \in IdLists("user_assignees") :
    /\ Replace("user_assignees", ticket_id, user_ids)
    /\ UNCHANGED dispatch

assign_crews_to_ticket ==
  \E ticket_id \in TicketIds, crew_ids \in IdLists("crew_assignees") :
    /\ Replace("crew_assignees", ticket_id, crew_ids)
    /\ UNCHANGED dispatch

unassign_user_from_ticket ==
  \E ticket_id \in TicketIds, user_id \in RequestIds("user_assignees") :
    /\ Remove("user_assignees", ticket_id, user_id)
    /\ UNCHANGED dispatch

unassign_crew_from_ticket ==
  \E ticket_id \in TicketIds, crew_id \in RequestIds("crew_assignees") :
    /\ Remove("crew_assignees", ticket_id, crew_id)
    /\ UNCHANGED dispatch

set_ticket_labels ==
  \E ticket_id \in TicketIds, label_ids \in IdLists("labels") :
    /\ Replace("labels", ticket_id, label_ids)
    /\ UNCHANGED dispatch

remove_label_from_ticket ==
  \E ticket_id \in TicketIds, label_id \in RequestIds("labels") :
    /\ Remove("labels", ticket_id, label_id)
    /\ UNCHANGED dispatch

\* no dispatch call is under way while the tickets router is exercised
TicketsInit ==
  /\ Init
  /\ mock = "final"
  /\ api_key_arg = "sk"
  /\ env_key = "None"
  /\ ticket = FullTicket
  /\ auditBroken = FALSE

TicketsNext ==
  \/ assign_users_to_ticket
  \/ assign_crews_to_ticket
  \/ unassign_user_from_ticket
  \/ unassign_crew_from_ticket
  \/ set_ticket_labels
  \/ remove_label_from_ticket

TicketsSpec == TicketsInit /\ [][TicketsNext]_vars

\* every call the loop makes returns, so a step that can be taken is taken
FairSpec == Spec /\ WF_vars(Next)

Done == pc \in {"returned", "failed"}

\* ================================================================== claims
CapError == "Exception: Agent exceeded maximum iterations"

\* C1: one dispatch call invokes the model at most max_iterations (20)
\* times; the "exceeded maximum iterations" failure is raised only after the
\* 20th invocation answered tool_use, and after a 20th tool_use answer the
\* loop can only fail: no 21st invocation is possible.
C1_IterationCap ==
  /\ modelCalls <= max_iterations
  /\ failure = CapError =>
       /\ pc = "failed"
       /\ modelCalls = max_iterations
       /\ response.stop_reason = "tool_use"
  /\ (pc = "loop" /\ modelCalls = max_iterations) =>
       (ENABLED ExceedIterations /\ ~ENABLED CallModel)

C1_Witness ==
  /\ pc = "failed"
  /\ failure = CapError
  /\ modelCalls = max_iterations
  /\ Len(messages) = 1 + 2 * max_iterations

\* C2: whatever the model and the tools answer, a dispatch call eventually
\* returns a decision or raises a failure.
C2_Terminates == <>Done

C2_Witness == pc = "returned" /\ modelCalls >= 2 /\ toolExecs >= 2

\* C3: when the first answer of the model is end_turn and its text is a
\* complete decision object, dispatch does not fail, its result is the dict
\* the text denotes, and it has invoked the model once and executed no tool.
C3_FinalOnFirstTurn ==
  (modelCalls = 1 /\ response.stop_reason = "end_turn" /\ pc # "respond") =>
    \A b \in Bodies, sep \in Seps :
      response.content \in FinalContents(ObjectText(required_output_fields, b, sep)) =>
        /\ pc \in {"log", "logged", "returned"}
        /\ result = DecisionValue(required_output_fields, b)
        /\ toolExecs = 0
        /\ dbQueries = 0

C3_Witness ==
  /\ pc = "returned"
  /\ modelCalls = 1
  /\ toolExecs = 0
  /\ Len(response.content) = 3
  /\ final_text = ObjectText(required_output_fields, <<"x">>, <<"ws">>)
  /\ result = DecisionValue(required_output_fields, <<"x">>)

ToolUsesOf(content) == SelectSeq(content, LAMBDA b : b.type = "tool_use")

\* the model asked for exactly one tool call on turn 1 and answered
\* end_turn on turn 2
OneToolThenFinal ==
  /\ modelCalls = 2
  /\ response.stop_reason = "end_turn"
  /\ Len(ToolUsesOf(messages[2].content)) = 1

\* C4: for a model that asks for one tool call on turn 1 and answers
\* end_turn on turn 2, dispatch invokes the model twice and executes one
\* tool, the conversation passed to the second invocation ends with the
\* turn holding the result of that call, and once the model has answered
\* end_turn no further invocation or execution takes place.
C4_ToolThenFinal ==
  /\ [](OneToolThenFinal =>
         /\ toolExecs = 1
         /\ Len(sent) = 3
         /\ sent[2].role = "assistant"
         /\ sent[3].role = "user"
         /\ Len(sent[3].content) = 1
         /\ LET call == ToolUsesOf(sent[2].content)[1]
                got == sent[3].content[1]
            IN /\ got.type = "tool_result"
               /\ got.tool_use_id = call.id
               /\ got.is_error \/ got.content = JsonDumps(ToolOutcome(call.name, call.input)))
  /\ [][OneToolThenFinal => (modelCalls' = 2 /\ toolExecs' = 1)]_vars

C4_Witness ==
  /\ OneToolThenFinal
  /\ pc = "returned"
  /\ sent[3].content[1].content.dumped.rows = <<[id |-> "C3", distance |-> -1],
                                                [id |-> "C5", distance |-> 2],
                                                [id |-> "C1", distance |-> 3]>>

ToolNames == {create_tool_definitions[n].name : n \in DOMAIN create_tool_definitions}

\* the block the tool loop is about to execute is a call of a tool the
\* registry does not name
AtUnknownTool ==
  /\ pc = "tools"
  /\ blockIdx <= Len(response.content)
  /\ response.content[blockIdx].type = "tool_use"
  /\ response.content[blockIdx].name \notin ToolNames

\* a results turn that answers a call of an unknown tool
AnswersUnknownTool(turn) ==
  /\ turn.role = "user"
  /\ turn.form = "list"
  /\ \E n \in DOMAIN turn.content : turn.content[n].content.dumped.error = "Unknown tool"

\* C5: executing a call of an unknown tool raises nothing and touches
\* neither the session nor the data store: it appends a tool_result with the
\* call's id whose content is an error payload, and the tool loop goes on;
\* when the results turn holding it has been appended, the next step is the
\* next model invocation (as long as the iteration cap allows one).
C5_UnknownTool ==
  /\ [][AtUnknownTool =>
          /\ pc' = "tools"
          /\ failure' = failure
          /\ session' = session
          /\ dbQueries' = dbQueries
          /\ Len(tool_results') = Len(tool_results) + 1
          /\ LET got == tool_results'[Len(tool_results')] IN
               /\ got.type = "tool_result"
               /\ got.tool_use_id = response.content[blockIdx].id
               /\ got.content.dumped.kind = "error"
               /\ got.content.dumped.error = "Unknown tool"
               /\ ~got.is_error]_vars
  /\ [][(pc = "tools" /\ blockIdx > Len(response.content)) => pc' = "loop"]_vars
  /\ [][(pc = "loop" /\ AnswersUnknownTool(messages[Len(messages)])
          /\ modelCalls < max_iterations) =>
          (pc' = "respond" /\ modelCalls' = modelCalls + 1 /\ sent' = messages)]_vars

C5_Witness ==
  /\ pc = "respond"
  /\ modelCalls = 2
  /\ AnswersUnknownTool(sent[Len(sent)])
  /\ Len(sent[Len(sent)].content) = 2

\* C6: dispatch never returns a decision that lacks one of the seven
\* required fields: whatever it returns is a JSON object that has every one
\* of them as a key.
C6_NoPartialDecision ==
  pc = "returned" =>
    /\ result.kind = "obj"
    /\ \A n \in DOMAIN required_output_fields :
         <<required_output_fields[n]>> \in DOMAIN result.dict

\* C7: a complete decision object wrapped in a ```json fence is parsed to the
\* same decision as the same object given raw: dispatch does not fail on it
\* and its result is the value the raw text parses to.
C7_FencedSameAsRaw ==
  \A d \in CompleteTexts :
    final_text = Fenced(<<"json">>, d) =>
      /\ pc # "failed"
      /\ result = PyValue(ParseFinalText(d))

\* C8: with an audit logger that raises on every write, the logging step of
\* a validated decision raises nothing: it leaves the result alone, records
\* a warning and goes on to the return; what dispatch returns is the value
\* its final text parses to, whether or not the logger works.
C8_AuditFailureContained ==
  /\ [][(pc = "log" /\ auditBroken) =>
          /\ pc' = "logged"
          /\ result' = result
          /\ failure' = ""
          /\ warnings' = warnings + 1
          /\ auditLog' = auditLog]_vars
  /\ [][pc = "logged" => (pc' = "returned" /\ result' = result /\ failure' = "")]_vars
  /\ [](pc \in {"log", "logged"} => ENABLED Next)
  /\ [](pc = "returned" =>
          /\ failure = ""
          /\ result = PyValue(ParseFinalText(final_text))
          /\ FirstMissing(result) = "")

C8_Witness ==
  /\ pc = "returned"
  /\ auditBroken
  /\ warnings = 1
  /\ auditLog = <<>>
  /\ modelCalls = 2
  /\ result = DecisionValue(required_output_fields, <<"x">>)

KeyError == "ValueError: Anthropic API key is required"

\* C9: with the api_key argument absent or empty and ANTHROPIC_API_KEY
\* unset, the first step of dispatch raises the API-key ValueError whatever
\* the ticket holds, and no model invocation, tool execution, data-store
\* query or audit write has taken place.
C9_MissingApiKey ==
  (api_key_arg \in {"None", ""} /\ env_key = "None" /\ pc # "entry") =>
    /\ pc = "failed"
    /\ failure = KeyError
    /\ modelCalls = 0
    /\ toolExecs = 0
    /\ dbQueries = 0
    /\ messages = <<>>
    /\ auditLog = <<>>

C9_Witness ==
  /\ pc = "failed"
  /\ failure = KeyError
  /\ api_key_arg = ""
  /\ env_key = "None"
  /\ ticket = FullTicket

TicketError == "ValueError: Missing required ticket field"

KeyPresent == api_key_arg = "sk" \/ (api_key_arg = "None" /\ env_key = "sk")

\* C10: with an API key present, a ticket that lacks one of the four
\* required fields makes dispatch raise the missing-ticket-field ValueError
\* before any model invocation, and nothing follows the failure: the call is
\* not tried again.
C10_MissingTicketField ==
  /\ (KeyPresent /\ ~(FullTicket \subseteq ticket) /\ pc \notin {"entry", "validate"}) =>
       /\ pc = "failed"
       /\ failure = TicketError
       /\ modelCalls = 0
       /\ toolExecs = 0
       /\ dbQueries = 0
       /\ messages = <<>>
  /\ failure = TicketError => (pc = "failed" /\ ~ENABLED Next)

C10_Witness ==
  /\ pc = "failed"
  /\ failure = TicketError
  /\ api_key_arg = "None"
  /\ env_key = "sk"
  /\ ticket = FullTicket \ {"origin"}

\* C11: every decision dispatch returns is a JSON object whose status is
\* "awaiting response", whose priority is high, medium or low, and whose
\* user_assignees, crew_assignees and labels are lists.
C11_DecisionWellTyped ==
  pc = "returned" =>
    /\ result.kind = "obj"
    /\ \A f \in {"status", "priority", "user_assignees", "crew_assignees", "labels"} :
         <<f>> \in DOMAIN result.dict
    /\ result.dict[<<"status">>] = Str(<<"awaiting response">>)
    /\ result.dict[<<"priority">>] \in {Str(<<p>>) : p \in {"high", "medium", "low"}}
    /\ \A f \in {"user_assignees", "crew_assignees", "labels"} :
         Head(result.dict[<<f>>]) = "["

\* the tool_use block of the current response that a tool_result answers
RequestOf(got) == response.content[got.tool_use_id[2]]

\* the distance the data store holds for a crew
StoredDistance(team_id) ==
  (CHOOSE c \in Range(CrewRows) : c.team_id = team_id).distance

\* C12: the result of a get_nearest_crews call that succeeded holds one
\* record per record of the data-store collaborator's answer, the i-th made
\* from the i-th; the records are those of the located crews of the asked
\* type, nearest first.
C12_NearestCrewsInOrder ==
  pc = "tools" =>
    \A k \in DOMAIN tool_results :
      (/\ RequestOf(tool_results[k]).name = "get_nearest_crews"
       /\ RequestOf(tool_results[k]).input.crew_type \in SupportCrewType
       /\ ~tool_results[k].is_error) =>
        LET rows == tool_results[k].content.dumped.rows
            crews == router_get_nearest_crews(RequestOf(tool_results[k]).input.crew_type)
        IN /\ Len(rows) = Len(crews)
           /\ \A i \in DOMAIN crews :
                rows[i] = [id |-> crews[i].team_id, distance |-> crews[i].distance]
           /\ \A i, j \in DOMAIN rows :
                i < j => StoredDistance(rows[i].id) <= StoredDistance(rows[j].id)
           /\ {rows[i].id : i \in DOMAIN rows} =
                {c.team_id : c \in {c \in Range(CrewRows) :
                    c.located /\ c.crew_type = RequestOf(tool_results[k]).input.crew_type}}

C12_Witness ==
  /\ pc = "tools"
  /\ Len(tool_results) = 1
  /\ RequestOf(tool_results[1]).name = "get_nearest_crews"
  /\ ~tool_results[1].is_error
  /\ tool_results[1].content.dumped.rows = <<[id |-> "C3", distance |-> -1],
                                              [id |-> "C5", distance |-> 2],
                                              [id |-> "C1", distance |-> 3]>>

\* the tool loop is about to execute a tool_use block
AtToolUse ==
  /\ pc = "tools"
  /\ blockIdx <= Len(response.content)
  /\ response.content[blockIdx].type = "tool_use"

\* C13 as stated: execute_tool never raises; whatever the data store does,
\* it returns a value to its caller.
C13_ExecutorNeverRaises ==
  AtToolUse =>
    \A fault \in Faults :
      ~execute_tool(response.content[blockIdx].name, response.content[blockIdx].input,
                    session, fault).raised

\* C13 amended: execute_tool rolls the session back and re-raises; the
\* dispatch loop catches the exception, so that executing a tool_use block
\* never fails dispatch: it appends one tool_result with the block's id,
\* which is an error-shaped result marked is_error exactly when execute_tool
\* raised, and the tool loop goes on.
C13_FailureConverted ==
  /\ [][AtToolUse =>
          /\ pc' = "tools"
          /\ failure' = ""
          /\ blockIdx' = blockIdx + 1
          /\ Len(tool_results') = Len(tool_results) + 1
          /\ SubSeq(tool_results', 1, Len(tool_results)) = tool_results
          /\ LET got == tool_results'[Len(tool_results')]
                 block == response.content[blockIdx]
             IN /\ got.tool_use_id = block.id
                /\ \E fault \in Faults :
                     LET r == execute_tool(block.name, block.input, session, fault) IN
                       /\ got.is_error = r.raised
                       /\ r.raised => /\ got.content.dumped.kind = "error"
                                      /\ got.content.dumped.error = "exception"
                       /\ ~r.raised => got.content = JsonDumps(r.value)]_vars
  /\ [](pc = "failed" =>
          failure \in {KeyError, TicketError, CapError,
                       "Exception: AI agent did not return valid JSON",
                       "TypeError: argument is not iterable",
                       "ValueError: Missing required output field",
                       "Exception: Unexpected stop reason"})

C13_Witness ==
  /\ pc = "respond"
  /\ modelCalls = 2
  /\ Len(sent) = 3
  /\ Len(sent[3].content) = 2
  /\ ~sent[3].content[1].is_error
  /\ sent[3].content[2].is_error
  /\ sent[3].content[2].content.dumped.kind = "error"

\* the requester turn `answers` holds one tool_result per tool_use block of
\* the model turn `asked`, in the blocks' order, each with its block's id
AnswersAll(asked, answers) ==
  /\ asked.role = "assistant"
  /\ answers.role = "user"
  /\ answers.form = "list"
  /\ Len(answers.content) = Len(ToolUsesOf(asked.content))
  /\ \A n \in DOMAIN answers.content :
       /\ answers.content[n].type = "tool_result"
       /\ answers.content[n].tool_use_id = ToolUsesOf(asked.content)[n].id

\* a conversation of the ticket turn followed by `turns` pairs of a model
\* turn and the requester turn that answers all its tool calls
Answered(msgs, turns) ==
  /\ Len(msgs) = 1 + 2 * turns
  /\ msgs[1].form = "str"
  /\ \A k \in 1..turns : AnswersAll(msgs[2 * k], msgs[2 * k + 1])

\* C14: the conversation passed to the n-th model invocation is the ticket
\* turn followed, for each of the n - 1 earlier tool_use turns, by that model
\* turn and exactly one requester turn with one tool_result per tool_use
\* block, in order and with the block's id; between a tool_use answer and
\* the appending of its results turn no invocation takes place.
C14_ResultsBeforeNextCall ==
  /\ modelCalls >= 1 => Answered(sent, modelCalls - 1)
  /\ pc = "loop" => Answered(messages, modelCalls)
  /\ pc = "tools" =>
       /\ ~ENABLED CallModel
       /\ Len(messages) = 2 * modelCalls
       /\ Answered(SubSeq(messages, 1, Len(messages) - 1), modelCalls - 1)
       /\ messages[Len(messages)].content = response.content
       /\ Len(tool_results) = Len(ToolUsesOf(SubSeq(response.content, 1, blockIdx - 1)))

C14_Witness ==
  /\ pc = "respond"
  /\ modelCalls = 2
  /\ Len(ToolUsesOf(sent[2].content)) = 2
  /\ sent[3].content[1].tool_use_id = <<1, 1>>
  /\ sent[3].content[2].tool_use_id = <<1, 2>>
  /\ sent[3].content[1] # sent[3].content[2]

\* C15: a tool call that fails on the data store leaves the shared session
\* rolled back: the step that records the failure ends with a usable
\* session although the failing query had left it in a failed transaction,
\* and the session is usable at the start of every tool call, at every
\* model invocation and when dispatch returns or fails.
C15_SessionRolledBack ==
  /\ [](session = "ok")
  /\ [][(AtToolUse /\ tool_results'[Len(tool_results')].is_error) =>
          /\ session' = "ok"
          /\ _execute_tool_internal(response.content[blockIdx].name,
                                    response.content[blockIdx].input,
                                    session, TRUE).session = "failed"]_vars

C15_Witness ==
  /\ pc = "returned"
  /\ session = "ok"
  /\ Len(messages) = 5
  /\ Len(messages[3].content) = 2
  /\ messages[3].content[1].is_error
  /\ ~messages[3].content[2].is_error
  /\ Len(messages[3].content[2].content.dumped.rows) = 3
  /\ ~messages[5].content[1].is_error
  /\ messages[5].content[1].content.dumped.rows # <<>>

StopError == "Exception: Unexpected stop reason"

\* the model has just answered with a stop reason the loop does not know
AtUnexpectedStop ==
  /\ pc = "respond"
  /\ response.stop_reason \notin {"end_turn", "tool_use"}

\* C16: on a stop reason other than end_turn and tool_use the next step of
\* dispatch is the "Unexpected stop reason" failure: nothing of the response
\* is parsed, appended or executed, no decision is set, and the failed call
\* makes no further step, so the model is not invoked again.
C16_UnexpectedStopFails ==
  /\ [][AtUnexpectedStop =>
          /\ pc' = "failed"
          /\ failure' = StopError
          /\ UNCHANGED <<result, final_text, messages, tool_results, modelCalls,
                         toolExecs, dbQueries, auditLog>>]_vars
  /\ [](AtUnexpectedStop => ENABLED UnexpectedStop)
  /\ [](failure = StopError =>
          /\ pc = "failed"
          /\ result = NoResult
          /\ response.stop_reason \notin {"end_turn", "tool_use"}
          /\ ~ENABLED Next)

C16_Witness ==
  /\ pc = "failed"
  /\ failure = StopError
  /\ response.stop_reason = "max_tokens"
  /\ ToolUsesOf(response.content) # <<>>
  /\ modelCalls = 2
  /\ toolExecs = 1

InvalidJsonError == "Exception: AI agent did not return valid JSON"
MissingFieldError == "ValueError: Missing required output field"

\* the class of the exception dispatch_ticket_with_ai raises
ExceptionClass(exception) ==
  CASE exception \in {KeyError, TicketError, MissingFieldError} -> "ValueError"
    [] exception = "TypeError: argument is not iterable" -> "TypeError"
    [] OTHER -> "Exception"

\* routers/dispatcher.py, dispatch_ticket: the status code the endpoint
\* answers with for an exception of the agent (`except ValueError` first,
\* then `except Exception`)
StatusCode(exception) ==
  IF ExceptionClass(exception) = "ValueError" THEN 400 ELSE 500

\* C17: a final JSON that misses a required field fails dispatch with the
\* same kind of error as a final text that is not JSON, and the endpoint
\* answers both with the same status code.
C17_SameErrorKind ==
  (pc = "failed" /\ failure = MissingFieldError) =>
    /\ ExceptionClass(failure) = ExceptionClass(InvalidJsonError)
    /\ StatusCode(failure) = StatusCode(InvalidJsonError)

\* C18: the parser tries the whole text, then the interior of a fenced
\* block, then the first brace-delimited substring, each when the earlier
\* ones gave no valid JSON; dispatch fails with the invalid-output error only
\* when none of the three gives valid JSON.
C18_OrderedFallback ==
  (pc = "failed" /\ failure = InvalidJsonError) =>
    /\ ~JsonLoads(final_text).ok
    /\ FencedSearch(final_text).found => ~JsonLoads(FencedSearch(final_text).group).ok
    /\ BraceSearch(final_text).found => ~JsonLoads(BraceSearch(final_text).group).ok

\* the conversation ends with the final turn of the model
EndsWithFinalTurn(msgs) ==
  /\ msgs # <<>>
  /\ msgs[Len(msgs)].role = "assistant"
  /\ msgs[Len(msgs)].content = response.content

\* C19: once the model has given its final answer and the decision is
\* validated, the conversation ends with the model's final turn, and so does
\* the transcript the audit logger has written.
C19_FinalTurnInTranscript ==
  /\ pc \in {"log", "logged", "returned"} => EndsWithFinalTurn(messages)
  /\ auditLog # <<>> => EndsWithFinalTurn(auditLog[Len(auditLog)].conversation)

\* the tool_use turn the mock of a call answers, before it is given its
\* ids: the first call's mock asks for labels, the second call's for users
OwnContent(call) == IF call.mock = "steady" THEN CanonicalContent ELSE BriefContent

\* what the loop can append for a request of each call's tool, whether the
\* data store fails or not, but for the request's id
ToolAnswers ==
  [name \in {"get_labels", "get_users"} |->
     { [ToolResult(ToolUse(name, [NoInput EXCEPT !.search = "a"]),
                   execute_tool(name, [NoInput EXCEPT !.search = "a"], "ok", fault))
          EXCEPT !.tool_use_id = <<0, 0>>] : fault \in BOOLEAN }]

\* the tool_result `got` is what the loop appends for the request `block`
OwnResult(block, got) ==
  /\ block.input = [NoInput EXCEPT !.search = "a"]
  /\ got.tool_use_id = block.id
  /\ [got EXCEPT !.tool_use_id = <<0, 0>>] \in ToolAnswers[block.name]

\* the conversation `msgs` holds the ticket turn of the call, then its model
\* turns, each one the mock's answer to the call's invocation of that number
\* and each followed by the results of the requests of that turn
OwnConversation(call, msgs) ==
  /\ msgs # <<>> => msgs[1] = TicketMessage(call.ticket)
  /\ \A k \in 2..Len(msgs) :
       IF k % 2 = 0
       THEN /\ msgs[k].role = "assistant"
            /\ msgs[k].content = WithIds(OwnContent(call), k \div 2)
            /\ call.mock = "brief" => k \div 2 <= MaxBriefTurns
       ELSE /\ AnswersAll(msgs[k - 1], msgs[k])
            /\ \A n \in DOMAIN msgs[k].content :
                 OwnResult(ToolUsesOf(msgs[k - 1].content)[n], msgs[k].content[n])

\* the conversation the call holds and the one it last passed to the model
\* are its own
OwnState(call) ==
  /\ OwnConversation(call, call.messages)
  /\ call.modelCalls >= 1 =>
       /\ Len(call.messages) >= 2 * call.modelCalls - 1
       /\ call.sent = SubSeq(call.messages, 1, 2 * call.modelCalls - 1)

\* C20: under any interleaving of two dispatch calls for different tickets,
\* the conversation each call passes to a model invocation, and the one it
\* holds, contains only that call's ticket turn, the model turns answered to
\* that call and the tool-result turns of that call's own requests.
C20_ConversationPrivate ==
  /\ OwnState(Locals)
  /\ parked # NoFrame => OwnState(parked)

\* both calls have passed a conversation with a model turn and a results
\* turn of their own to the model, and neither has finished
C20_Witness ==
  /\ parked # NoFrame
  /\ Len(sent) = 3
  /\ Len(parked.sent) = 3
  /\ sent[1] # parked.sent[1]
  /\ sent[2] # parked.sent[2]
  /\ sent[3] # parked.sent[3]
  /\ pc = "tools"
  /\ parked.pc = "respond"

\* the files a record of the audit log was written to
FilesOf(record) == {record.files.log_path, record.files.latest_path}

\* C21: no two dispatch calls write to the same resource: the audit records
\* of different calls are written to different files.
C21_AuditRecordsApart ==
  \A i, j \in DOMAIN auditLog : i # j => FilesOf(auditLog[i]) \cap FilesOf(auditLog[j]) = {}

\* the endpoint's call: the key of the settings is passed as the argument
\* (it is checked to be set first), and the dictionary made from the stored
\* ticket holds the four required fields and reporter_id
EndpointCall ==
  /\ api_key_arg = "sk"
  /\ FullTicket \subseteq ticket

\* the agent has failed over the model's output or the length of the
\* conversation
AgentFailed ==
  /\ pc = "failed"
  /\ failure \in {InvalidJsonError, MissingFieldError, StopError, CapError}

\* C22: for an existing ticket and a configured API key, whenever the agent
\* fails (unparseable final text, missing output field, unexpected stop
\* reason, or iteration cap exceeded) the dispatch endpoint answers 500.
C22_AgentFailureAnswers500 ==
  (EndpointCall /\ AgentFailed) => StatusCode(failure) = 500

\* the latest request was a replacement on a stored ticket
ReplaceAsked == reply.op = "replace" /\ reply.ticket_id \in StoredTickets

\* C23: assign-users, assign-crews and set-labels replace: for a stored
\* ticket, whenever every requested id is stored the call answers 200 and
\* the relation then holds exactly the requested ids, whatever it held
\* before.
C23_ReplaceSemantics ==
  (ReplaceAsked /\ Range(reply.ids) \subseteq Stored[reply.relation]) =>
    /\ reply.status = 200
    /\ attached[reply.relation] = Range(reply.ids)

\* C24: a replacement request that names an id which is not stored is
\* answered 400, and the step leaves all three relations of the ticket as
\* they were: none of the stored ids of the request is applied.
C24_InvalidIdChangesNothing ==
  /\ [](ReplaceAsked /\ ~(Range(reply.ids) \subseteq Stored[reply.relation]) =>
          reply.status = 400 /\ ~reply.committed)
  /\ [][(/\ reply'.op = "replace"
         /\ reply'.ticket_id \in StoredTickets
         /\ ~(Range(reply'.ids) \subseteq Stored[reply'.relation])) =>
          attached' = attached]_vars

\* a request with a stored and an unknown id was refused while the relation
\* holds something else than the stored id of the request
C24_Witness ==
  /\ ReplaceAsked
  /\ reply.relation = "labels"
  /\ reply.ids = <<"L1", "X9">>
  /\ reply.status = 400
  /\ attached["labels"] = {"L2"}

\* C25: removing a stored user, crew or label from a stored ticket answers
\* 200 whether it is attached or not; when it is not attached nothing
\* changes and nothing is committed; the step takes away nothing but that
\* entity, so applying the removal again changes nothing.
C25_RemoveIdempotent ==
  [][(/\ reply'.op = "remove"
      /\ reply'.ticket_id \in StoredTickets
      /\ reply'.ids[1] \in Stored[reply'.relation]) =>
       /\ reply'.status = 200
       /\ reply'.ids[1] \notin attached[reply'.relation] =>
            attached' = attached /\ ~reply'.committed
       /\ attached' = [attached EXCEPT ![reply'.relation] = @ \ {reply'.ids[1]}]
       /\ reply'.ids[1] \notin attached'[reply'.relation]]_vars

\* a removal of a stored user that was not attached was answered 200 with
\* no commit, and the other user is still assigned
C25_Witness ==
  /\ reply.op = "remove"
  /\ reply.relation = "user_assignees"
  /\ reply.ticket_id \in StoredTickets
  /\ reply.ids = <<"U1">>
  /\ reply.status = 200
  /\ ~reply.committed
  /\ attached["user_assignees"] = {"U2"}

\* the results collected for the latest model turn hold a failure
SomeToolFailed == \E k \in DOMAIN tool_results : tool_results[k].is_error

\* C26: tool calls of one model turn are isolated from each other: a tool
\* call that raises is recorded as a tool_result flagged is_error with the id
\* of its block, the step goes on to the next block without failing the
\* call, every tool_use block of the turn has its result when the results
\* are appended, and the next model invocation is then possible.
C26_ToolCallsIsolated ==
  /\ [][(pc = "tools" /\ blockIdx' = blockIdx + 1
           /\ response.content[blockIdx].type = "tool_use") =>
          /\ pc' = "tools"
          /\ toolExecs' = toolExecs + 1
          /\ Len(tool_results') = Len(tool_results) + 1
          /\ SubSeq(tool_results', 1, Len(tool_results)) = tool_results
          /\ tool_results'[Len(tool_results')].tool_use_id = response.content[blockIdx].id
          /\ tool_results'[Len(tool_results')].is_error =>
               tool_results'[Len(tool_results')].content.dumped.kind = "error"]_vars
  /\ [][pc = "tools" => pc' \in {"tools", "loop"}]_vars
  /\ []((pc = "tools" /\ SomeToolFailed) =>
          IF blockIdx <= Len(response.content)
          THEN ENABLED ExecuteBlock
          ELSE ENABLED AppendToolResults)
  /\ []((pc = "loop" /\ messages[Len(messages)].form = "list" /\ SomeToolFailed) =>
          /\ messages[Len(messages)].content = tool_results
          /\ Len(tool_results) = Len(ToolUsesOf(response.content))
          /\ failure = ""
          /\ iteration < max_iterations => ENABLED CallModel)

\* the first of two tool calls of a turn failed, the second was executed and
\* gave rows, and the model has been invoked again with both results
C26_Witness ==
  /\ pc = "respond"
  /\ modelCalls = 2
  /\ toolExecs = 2
  /\ Len(sent) = 3
  /\ Len(sent[3].content) = 2
  /\ sent[3].content[1].is_error
  /\ sent[3].content[1].tool_use_id = <<1, 1>>
  /\ ~sent[3].content[2].is_error
  /\ sent[3].content[2].tool_use_id = <<1, 2>>
  /\ sent[3].content[2].content.dumped.kind = "rows"

\* crew_type arguments outside the closed set: an unknown type, an empty
\* one, and none at all
InvalidCrewTypes == {"road crew", "", "None"}

\* the block about to be executed asks for the nearest crews of a type
\* outside the closed set
AtInvalidCrewType ==
  /\ pc = "tools"
  /\ blockIdx <= Len(response.content)
  /\ response.content[blockIdx].type = "tool_use"
  /\ response.content[blockIdx].name = "get_nearest_crews"
  /\ response.content[blockIdx].input.crew_type \notin SupportCrewType

\* C27: a get_nearest_crews call with a crew_type outside the closed set of
\* crew types gives a structured error payload: the executor does not raise
\* (whatever the state of the data store), sends no query, and the result
\* recorded for the call is an ordinary tool_result holding the error.
C27_InvalidCrewType ==
  /\ [](\A crew_type \in InvalidCrewTypes, state \in {"ok", "failed"}, fault \in BOOLEAN :
          LET r == execute_tool("get_nearest_crews", [NoInput EXCEPT !.crew_type = crew_type],
                                state, fault)
          IN /\ ~r.raised
             /\ ~r.queried
             /\ r.session = state
             /\ r.value.kind = "error"
             /\ r.value.error = "Invalid crew_type")
  /\ [][AtInvalidCrewType =>
          /\ dbQueries' = dbQueries
          /\ session' = session
          /\ toolExecs' = toolExecs + 1
          /\ tool_results' =
               Append(tool_results,
                      [type |-> "tool_result", tool_use_id |-> response.content[blockIdx].id,
                       is_error |-> FALSE,
                       content |-> JsonDumps([kind |-> "error", error |-> "Invalid crew_type",
                                              rows |-> <<>>])])]_vars

\* the model has been invoked again with the error payload of a crew search
\* for "road crew", and no query was sent
C27_Witness ==
  /\ pc = "respond"
  /\ modelCalls = 2
  /\ sent[2].content[1].name = "get_nearest_crews"
  /\ sent[2].content[1].input.crew_type = "road crew"
  /\ sent[3].content[1].content.dumped.error = "Invalid crew_type"
  /\ ~sent[3].content[1].is_error
  /\ dbQueries = 0
  /\ toolExecs = 1

\* the model's latest answer is its final one
FinalAnswerGiven == response.stop_reason = "end_turn"

\* C28: once the model has reported end_turn the call invokes the model no
\* more and executes no tool: the conversation and the answer stay as they
\* are, the call is parsing, logging, returned or failed, what it returns
\* has passed the field check, and a failure of parsing or validation is
\* final: no step follows it.
C28_NoRetryAfterFinalAnswer ==
  /\ [][FinalAnswerGiven =>
          /\ modelCalls' = modelCalls
          /\ toolExecs' = toolExecs
          /\ dbQueries' = dbQueries
          /\ iteration' = iteration
          /\ messages' = messages
          /\ response' = response
          /\ pc' \in {"log", "logged", "returned", "failed"}]_vars
  /\ [](FinalAnswerGiven => pc \in {"respond", "log", "logged", "returned", "failed"})
  /\ []((FinalAnswerGiven /\ pc = "returned") =>
          result # NoResult /\ FirstMissing(result) = "")
  /\ []((FinalAnswerGiven /\ pc = "failed") =>
          /\ failure \in {InvalidJsonError, MissingFieldError,
                          "TypeError: argument is not iterable"}
          /\ ~ENABLED Next)

\* after one tool turn the model gave a final text that is not JSON: the
\* call has failed with one tool executed and two invocations made
C28_Witness ==
  /\ pc = "failed"
  /\ failure = InvalidJsonError
  /\ FinalAnswerGiven
  /\ modelCalls = 2
  /\ iteration = 2
  /\ toolExecs = 1
  /\ Len(messages) = 3

\* the number of times log_conversation_to_file has been called: the
\* records written and the calls that raised
LoggerCalls == Len(auditLog) + warnings

\* C29: the audit logger is called exactly once in a dispatch call that
\* returns a decision, in the step between the field check and the return,
\* with the validated result; it is never called before that step, and
\* never in a call that fails.
C29_LoggedOnceOnSuccess ==
  /\ [](pc \in {"logged", "returned"} => LoggerCalls = 1)
  /\ [](pc \notin {"logged", "returned"} => LoggerCalls = 0)
  /\ [][LoggerCalls' # LoggerCalls =>
          /\ pc = "log"
          /\ pc' = "logged"
          /\ FirstMissing(result) = ""
          /\ result' = result
          /\ auditLog' # auditLog => auditLog'[1].result = result]_vars
  /\ [][pc = "log" => LoggerCalls' = LoggerCalls + 1]_vars
  /\ [][pc = "logged" => pc' = "returned"]_vars

\* a call that used a tool has returned its decision with one record written
C29_Witness ==
  /\ pc = "returned"
  /\ Len(auditLog) = 1
  /\ warnings = 0
  /\ auditLog[1].result = result
  /\ toolExecs = 1
  /\ modelCalls = 2

\* the arguments the registry lets the model give to a tool: a search word
\* or none, and for the crew search each crew type of the enum
RegisteredInputs(tool) ==
  IF tool.enum = {}
  THEN {[NoInput EXCEPT !.search = w] : w \in {"None", "a", "b"}}
  ELSE {[NoInput EXCEPT !.crew_type = c] : c \in tool.enum}

\* C30: registry and executor agree: the declared tool names are pairwise
\* distinct; the executor has a handler for each of them, so that a call of
\* a declared tool with declared arguments never gives the unknown-tool
\* error nor the invalid-crew-type error; and every result recorded in a
\* dispatch call for a declared tool and a declared crew type is the
\* handler's output or the report of its failure.
C30_RegistryMatchesExecutor ==
  /\ \A m, n \in DOMAIN create_tool_definitions :
       m # n => create_tool_definitions[m].name # create_tool_definitions[n].name
  /\ \A n \in DOMAIN create_tool_definitions :
       \A input \in RegisteredInputs(create_tool_definitions[n]) :
         LET r == _execute_tool_internal(create_tool_definitions[n].name, input, "ok", FALSE)
         IN /\ ~r.raised
            /\ r.queried
            /\ r.value.kind = "rows"
            /\ r.value.error = ""
  /\ pc = "tools" =>
       \A k \in DOMAIN tool_results :
         (\E n \in DOMAIN create_tool_definitions :
            /\ RequestOf(tool_results[k]).name = create_tool_definitions[n].name
            /\ create_tool_definitions[n].enum # {} =>
                 RequestOf(tool_results[k]).input.crew_type \in create_tool_definitions[n].enum)
         => (tool_results[k].is_error \/ tool_results[k].content.dumped.kind = "rows")

\* each of the two tools asked for in one turn, both declared, has given
\* rows, the crew search for a crew type of the enum
C30_Witness ==
  /\ pc = "tools"
  /\ Len(tool_results) = 2
  /\ RequestOf(tool_results[1]).name = "get_users"
  /\ RequestOf(tool_results[2]).name = "get_nearest_crews"
  /\ RequestOf(tool_results[2]).input.crew_type = "pothole crew"
  /\ tool_results[1].content.dumped.kind = "rows"
  /\ tool_results[2].content.dumped.kind = "rows"
  /\ tool_results[2].content.dumped.rows # <<>>

====
